---- MODULE Spec2Model ----
(***************************************************************************)
(* Live scoreboard (problem6): LeaderboardService over the SQLite tables   *)
(* score_history / idempotency / actions and the Redis key                 *)
(* leaderboard:top10.  Every await of a handler is one atomic step of the  *)
(* request that runs it; requests interleave at those steps.               *)
(* User store (problem5): the /users routes over the SQLite table users.   *)
(* Sum to n (problem4): sum_to_n_a, sum_to_n_b and sum_to_n_c.             *)
(***************************************************************************)
EXTENDS Integers, Sequences, FiniteSets, TLC

\* ------------------------------------------------------------------ bounds
MaxRequests == 3
MaxUpdates == 2
MaxFaults == 1
MaxClients == 2    \* problem5: requests in flight at once
MaxUuids == 2      \* problem5: ids uuidv4 hands out in one run
MaxN == 12         \* problem4: largest argument
MaxNegative == 3   \* problem4: the smallest argument is -MaxNegative
MaxRegisters == 3  \* /auth/register calls in one run
NumPlayers == 11   \* users of the store a leaderboard is aggregated from

\* ------------------------------------------------------------------ inputs
Procs == 1..MaxRequests
Users == {"A", "B"}
ActionIds == {"e1", "e2"}
ActionTypes == {"quest_complete", "achievement", "bogus"}

\* a well-formed user id that has no row in the users table
UnknownUsers == {"Z"}

\* what a request carries: no Authorization header, a token that does not
\* verify, or a valid token; a body field absent, not a string, or a string
Tokens == {"none", "invalid", "valid"}
FieldShapes == {"absent", "number", "string"}

\* order of the user ids as strings ("A" < "B")
UserOrd == [A |-> 1, B |-> 2]

\* the catalog holds an action that takes points away
defaultActionsWithPenalty ==
  [button_click |-> 10, quest_complete |-> 0 - 50, level_up |-> 100,
   achievement |-> 25, milestone |-> 200, daily_challenge |-> 75]

\* rows of the actions table written by setupDefaultActions
defaultActions ==
  [button_click |-> 10, quest_complete |-> 50, level_up |-> 100,
   achievement |-> 25, milestone |-> 200, daily_challenge |-> 75]

TOP10 == 10

VARIABLES
  history,      \* table score_history, in insertion order
  idempotency,  \* table idempotency (action_id PRIMARY KEY)
  cache,        \* Redis key leaderboard:top10: sorted-set members and TTL flag
  broadcasts,   \* messages emitted to the 'scoreboard' room
  req,          \* per request: position, parameters, locals, response
  faults,       \* number of store and cache faults injected so far
  usersTable,   \* problem5: rows of the table users
  uuids,        \* problem5: number of ids uuidv4 has handed out
  userReq,      \* problem5: per client, the request in flight or its response
  calc,         \* problem4: argument, position and locals of the three calls
  agg,          \* a leaderboard aggregation over a store of many users
  registeredUsers,  \* table users of problem6: one row per account
  regReq        \* per /auth/register call: position, locals, response

scoreboardVars == <<history, idempotency, cache, broadcasts, req, faults>>
userStoreVars == <<usersTable, uuids, userReq>>
registerVars == <<registeredUsers, regReq>>
vars == <<history, idempotency, cache, broadcasts, req, faults,
          usersTable, uuids, userReq, calc, agg, registeredUsers, regReq>>

\* ------------------------------------------------------------ pure helpers
Min(a, b) == IF a < b THEN a ELSE b

RECURSIVE SumIncrease(_, _)
SumIncrease(h, u) ==
  IF h = <<>> THEN 0
  ELSE (IF h[1].user_id = u THEN h[1].score_increase ELSE 0)
       + SumIncrease(Tail(h), u)

\* the score is read from the user's latest row only
getTotalScoreLatestRow(h, userId) ==
  LET own == {i \in DOMAIN h : h[i].user_id = userId}
  IN IF own = {} THEN 0
     ELSE h[CHOOSE i \in own : \A j \in own : j <= i].score_increase

\* SELECT COALESCE(SUM(score_increase), 0) FROM score_history WHERE user_id = ?
getTotalScore(h, userId) == SumIncrease(h, userId)

\* users that own at least one score_history row (GROUP BY user_id)
ScoredUsers(h) == {h[i].user_id : i \in DOMAIN h}

\* the ranks count the smaller totals instead of the greater ones
getUserRankAscending(h, userId) ==
  Cardinality({u \in ScoredUsers(h) :
                 SumIncrease(h, u) < SumIncrease(h, userId)}) + 1

\* SELECT COUNT(*) + 1 FROM (... GROUP BY user_id) WHERE total > (user's total)
getUserRank(h, userId) ==
  Cardinality({u \in ScoredUsers(h) :
                 SumIncrease(h, u) > SumIncrease(h, userId)}) + 1

\* getUserScoreAndRank as computed on one store state h
getUserScoreAndRank(h, userId) ==
  [score |-> getTotalScore(h, userId), rank |-> getUserRank(h, userId)]

\* SELECT score_value FROM actions WHERE action_type = ?  (row?.score_value || null)
getActionScoreValue(actionType) ==
  IF actionType \in DOMAIN defaultActions THEN defaultActions[actionType] ELSE 0

\* the lookup compares the wrong column
isActionProcessedWrongColumn(idem, actionId) ==
  \E r \in idem : r.user_id = actionId

\* SELECT action_id FROM idempotency WHERE action_id = ?
isActionProcessed(idem, actionId) ==
  \E r \in idem : r.action_id = actionId

\* all orders of a finite set
Perms(S) ==
  {s \in [1..Cardinality(S) -> S] : \A i, j \in DOMAIN s : i # j => s[i] # s[j]}

\* users LEFT JOIN score_history GROUP BY u.id ORDER BY totalScore DESC:
\* every order of the users that is non-increasing in totalScore
getAllUsersWithScores(h) ==
  {[i \in DOMAIN s |-> [id |-> s[i], totalScore |-> SumIncrease(h, s[i])]] :
     s \in {t \in Perms(Users) :
              \A i, j \in DOMAIN t :
                 i < j => SumIncrease(h, t[i]) >= SumIncrease(h, t[j])}}

\* slice(0, 10)
Slice10(rows) == SubSeq(rows, 1, Min(TOP10, Len(rows)))

\* decimal digits of a natural number, most significant first
RECURSIVE Digits(_)
Digits(n) == IF n < 10 THEN <<n>> ELSE Append(Digits(n \div 10), n % 10)

\* byte order of the JSON texts of two numbers followed by '}' ('}' > any digit)
RECURSIVE DigitsLess(_, _)
DigitsLess(a, b) ==
  IF a = <<>> THEN FALSE
  ELSE IF b = <<>> THEN TRUE
  ELSE IF a[1] # b[1] THEN a[1] < b[1]
  ELSE DigitsLess(Tail(a), Tail(b))

\* byte order of JSON.stringify({userId, username, score})
ValueLess(a, b) ==
  IF a.userId # b.userId THEN UserOrd[a.userId] < UserOrd[b.userId]
  ELSE DigitsLess(Digits(a.score), Digits(b.score))

\* ZRANGE key 0 -1 REV: score descending, equal scores by member descending
RECURSIVE zRangeRev(_)
zRangeRev(members) ==
  IF members = {} THEN <<>>
  ELSE LET m == CHOOSE x \in members :
                  \A y \in members \ {x} :
                     \/ x.z > y.z
                     \/ x.z = y.z /\ ValueLess(y, x)
       IN <<m>> \o zRangeRev(members \ {m})

\* ZADD: a member whose value is already in the set only gets its score replaced
zAdd(members, new) ==
  {m \in members : ~\E n \in new : n.userId = m.userId /\ n.score = m.score}
    \cup new

\* the members rank the other way round: score i
Top10MembersAscending(top10) ==
  {[userId |-> top10[i].userId, score |-> top10[i].score, z |-> i] :
     i \in DOMAIN top10}

\* members built by cacheTop10: score 10 - i, value JSON.stringify(s)
Top10Members(top10) ==
  {[userId |-> top10[i].userId, score |-> top10[i].score, z |-> TOP10 - (i - 1)] :
     i \in DOMAIN top10}

\* the key is absent; expired records that it went by its TTL and not by a DEL
\* (the handlers never read it)
NoCache == [members |-> {}, ttl |-> FALSE, expired |-> FALSE]

\* ---------------------------------------------------------------- requests
\* preceding (the requests answered before this one began) and idKnownAtStart
\* (the action id was in the idempotency table when this one began) record the
\* order of the calls, trace records the steps a request in flight has taken,
\* in order; the handlers never read them
IdleReq ==
  [pc |-> "idle", kind |-> "none", userId |-> "A", actionId |-> "e1",
   actionType |-> "bogus", scoreValue |-> 0, previousScore |-> 0,
   newScore |-> 0, scoreIncrease |-> 0, score |-> 0, rank |-> 0, rows |-> <<>>,
   status |-> 0, error |-> "", scores |-> <<>>, cachedAt |-> FALSE,
   preceding |-> {}, idKnownAtStart |-> FALSE, trace |-> <<>>]

Started == {p \in Procs : req[p].pc # "idle"}
Done == {p \in Procs : req[p].pc = "done"}

Updates == {p \in Procs : req[p].kind = "update"}

\* action ids are client-made uuids: the ids already sent, or the next unused one
FreshOrUsed ==
  LET used == {req[p].actionId : p \in Updates} IN
    IF "e1" \in used THEN ActionIds ELSE {"e1"}

\* request slots are taken in order
CanStart(p) ==
  /\ req[p].pc = "idle"
  /\ \A q \in Procs : q < p => req[q].pc # "idle"

\* ------------------------------------------------- problem5: user store
Clients == 1..MaxClients

\* ids made by uuidv4, in the order they are handed out
UserIds == 1..MaxUuids

Names == {"John Doe", "Jane Doe"}
Emails == {"john@example.com", "other@example.com"}
Ages == {30}

\* a string without the character '@'
NoAtSign == "invalid-email"

\* typeof age !== 'number' || age < 0
NegativeAge == -1

BodyFields == {"name", "email", "age"}

\* req.body: the fields it defines and their values; a field that is not
\* defined reads as undefined and carries no value
Bodies ==
  {b \in [present : SUBSET BodyFields, name : Names \cup {""},
          email : Emails \cup {NoAtSign, ""}, age : Ages \cup {NegativeAge, 0}] :
     /\ ("name" \in b.present) = (b.name # "")
     /\ ("email" \in b.present) = (b.email # "")
     /\ ("age" \in b.present) = (b.age # 0)}

NoBody == [present |-> {}, name |-> "", email |-> "", age |-> 0]

IdleUserReq ==
  [pc |-> "idle", op |-> "none", id |-> 0, body |-> NoBody,
   status |-> 0, error |-> ""]

\* ------------------------------------------------- problem4: sum to n
\* the argument, the call that is running, the locals of sum_to_n_a (i,
\* total), the arguments of the frames of sum_to_n_c that have not returned
\* and the value the last frame returned, and the three results
IdleCalc ==
  [n |-> 0, pc |-> "idle", i |-> 0, total |-> 0, frames |-> <<>>, ret |-> 0,
   a |-> 0, b |-> 0, c |-> 0]

\* --------------------------------------- aggregation over many users
\* the score_history log, the call's position, the rows of the query and the
\* scores returned
IdleAgg == [log |-> <<>>, pc |-> "idle", rows |-> <<>>, scores |-> <<>>]

\* ------------------------------------------------------- /auth/register
Registrants == 1..MaxRegisters

\* the usernames of the accounts the users A and B were created with
UsernameOf == [A |-> "alice", B |-> "bob"]

\* the rows of the table users for the users A and B
TestUsers == {[id |-> u, username |-> UsernameOf[u]] : u \in Users}

IdleRegReq ==
  [pc |-> "idle", username |-> "", userId |-> "", status |-> 0,
   error |-> ""]

Init ==
  /\ history = <<>>
  /\ idempotency = {}
  /\ cache = NoCache
  /\ broadcasts = <<>>
  /\ req = [p \in Procs |-> IdleReq]
  /\ faults = 0
  /\ usersTable = {}
  /\ uuids = 0
  /\ userReq = [c \in Clients |-> IdleUserReq]
  /\ calc = IdleCalc
  /\ agg = IdleAgg
  /\ registeredUsers = TestUsers
  /\ regReq = [c \in Registrants |-> IdleRegReq]


\* the response is sent: the request is over and its locals are gone
Respond(p, r) ==
  /\ req' = [req EXCEPT ![p] = [r EXCEPT !.pc = "done", !.scoreValue = 0,
                                         !.rows = <<>>, !.trace = <<>>]]
  /\ UNCHANGED <<userStoreVars, calc, agg, registerVars>>

Goto(p, r, label) ==
  /\ req' = [req EXCEPT ![p] =
               [r EXCEPT !.pc = label,
                         !.trace = IF req[p].pc \in {"idle", "done"} THEN <<>>
                                   ELSE Append(req[p].trace, req[p].pc)]]
  /\ UNCHANGED <<userStoreVars, calc, agg, registerVars>>

\* res.status(code).json({success: false, error}): no data is returned
Fail(p, code, message) ==
  Respond(p, [req[p] EXCEPT !.status = code, !.error = message,
                            !.previousScore = 0, !.newScore = 0,
                            !.scoreIncrease = 0, !.score = 0, !.rank = 0])

\* ------------------------------------------- POST /api/scores/update
\* The route has validated the body and found the user; updateScore is called.
StartUpdate(p, u, a, t) ==
  /\ CanStart(p)
  /\ Cardinality(Updates) < MaxUpdates
  /\ a \in FreshOrUsed
  /\ Goto(p, [IdleReq EXCEPT !.kind = "update", !.userId = u, !.actionId = a,
                             !.actionType = t, !.preceding = Done,
                             !.idKnownAtStart = (a \in {r.action_id : r \in idempotency})],
          "isActionProcessed")
  /\ UNCHANGED <<history, idempotency, cache, broadcasts, faults>>

\* authMiddleware and the validation of POST /api/scores/update up to the user
\* lookup: the status and error of the early return, status 0 when the request
\* goes on to updateScore
RouteCheck(token, idShape, typeShape, u) ==
  IF token = "none"
    THEN [status |-> 401, error |-> "Missing or invalid authorization header"]
  ELSE IF token = "invalid"
    THEN [status |-> 401, error |-> "Invalid or expired token"]
  ELSE IF idShape = "absent" \/ typeShape = "absent"
    THEN [status |-> 400, error |-> "Missing required fields: actionId, actionType"]
  ELSE IF idShape # "string" \/ typeShape # "string"
    THEN [status |-> 400, error |-> "Invalid field types"]
  ELSE IF u \notin Users
    THEN [status |-> 404, error |-> "User not found"]
  ELSE [status |-> 0, error |-> ""]

\* no request is in flight: the client has awaited every response so far
InTurn == Started = Done

\* the same request sent by a client that awaits each response before it sends
\* the next one (the integration tests), any number of updates up to MaxRequests
StartUpdateInTurn(p, u, a, t) ==
  /\ InTurn
  /\ CanStart(p)
  /\ a \in FreshOrUsed
  /\ Goto(p, [IdleReq EXCEPT !.kind = "update", !.userId = u, !.actionId = a,
                             !.actionType = t, !.preceding = Done,
                             !.idKnownAtStart = (a \in {r.action_id : r \in idempotency})],
          "isActionProcessed")
  /\ UNCHANGED <<history, idempotency, cache, broadcasts, faults>>

\* the handler drops the cached snapshot before it looks at the request
RejectedUpdateInvalidates(p) ==
  /\ InTurn
  /\ CanStart(p)
  /\ cache' = NoCache
  /\ \E token \in Tokens, idShape \in FieldShapes, typeShape \in FieldShapes,
        u \in Users \cup UnknownUsers :
       /\ RouteCheck(token, idShape, typeShape, u).status # 0
       /\ Respond(p, [IdleReq EXCEPT
                        !.kind = "rejected", !.userId = u,
                        !.status = RouteCheck(token, idShape, typeShape, u).status,
                        !.error = RouteCheck(token, idShape, typeShape, u).error,
                        !.preceding = Done])
  /\ UNCHANGED <<history, idempotency, broadcasts, faults>>

\* POST /api/scores/update answered by authMiddleware or by one of the
\* handler's early returns, for any token, body and user id that do not pass:
\* updateScore is never called
RejectedUpdate(p) ==
  /\ InTurn
  /\ CanStart(p)
  /\ \E token \in Tokens, idShape \in FieldShapes, typeShape \in FieldShapes,
        u \in Users \cup UnknownUsers :
       /\ RouteCheck(token, idShape, typeShape, u).status # 0
       /\ Respond(p, [IdleReq EXCEPT
                        !.kind = "rejected", !.userId = u,
                        !.status = RouteCheck(token, idShape, typeShape, u).status,
                        !.error = RouteCheck(token, idShape, typeShape, u).error,
                        !.preceding = Done])
  /\ UNCHANGED <<history, idempotency, cache, broadcasts, faults>>

\* const alreadyProcessed = await isActionProcessed(this.db, actionId)
IsActionProcessed(p) ==
  /\ req[p].pc = "isActionProcessed"
  /\ Goto(p, req[p],
          IF isActionProcessed(idempotency, req[p].actionId)
          THEN "replayGetTotalScore" ELSE "getActionScoreValue")
  /\ UNCHANGED <<history, idempotency, cache, broadcasts, faults>>

\* the replay branch also drops the cached snapshot
ReplayGetTotalScoreInvalidates(p) ==
  /\ req[p].pc = "replayGetTotalScore"
  /\ cache' = NoCache
  /\ Goto(p, [req[p] EXCEPT !.previousScore = getTotalScore(history, req[p].userId),
                            !.newScore = getTotalScore(history, req[p].userId),
                            !.scoreIncrease = 0],
          "replayGetUserRank")
  /\ UNCHANGED <<history, idempotency, broadcasts, faults>>

\* replay branch: const score = await getTotalScore(this.db, userId)
ReplayGetTotalScore(p) ==
  /\ req[p].pc = "replayGetTotalScore"
  /\ Goto(p, [req[p] EXCEPT !.previousScore = getTotalScore(history, req[p].userId),
                            !.newScore = getTotalScore(history, req[p].userId),
                            !.scoreIncrease = 0],
          "replayGetUserRank")
  /\ UNCHANGED <<history, idempotency, cache, broadcasts, faults>>

\* replay branch: const rank = await this.getUserRank(userId); return {...}
ReplayGetUserRank(p) ==
  /\ req[p].pc = "replayGetUserRank"
  /\ Respond(p, [req[p] EXCEPT !.rank = getUserRank(history, req[p].userId),
                               !.status = 200])
  /\ UNCHANGED <<history, idempotency, cache, broadcasts, faults>>

\* the action id is marked as processed before the action type is looked up
GetActionScoreValueRecordsFirst(p) ==
  /\ req[p].pc = "getActionScoreValue"
  /\ idempotency' = idempotency \cup
        {[action_id |-> req[p].actionId, user_id |-> req[p].userId]}
  /\ LET v == getActionScoreValue(req[p].actionType) IN
       IF v = 0
       THEN Fail(p, 400, "Invalid action type")
       ELSE Goto(p, [req[p] EXCEPT !.scoreValue = v], "getPreviousScore")
  /\ UNCHANGED <<history, cache, broadcasts, faults>>

\* an action type missing from the actions table is taken as worth 0 points
GetActionScoreValueAcceptsUnknown(p) ==
  /\ req[p].pc = "getActionScoreValue"
  /\ Goto(p, [req[p] EXCEPT !.scoreValue = getActionScoreValue(req[p].actionType)],
          "getPreviousScore")
  /\ UNCHANGED <<history, idempotency, cache, broadcasts, faults>>

\* const scoreValue = await getActionScoreValue(...); if (!scoreValue) throw
GetActionScoreValue(p) ==
  /\ req[p].pc = "getActionScoreValue"
  /\ LET v == getActionScoreValue(req[p].actionType) IN
       IF v = 0
       THEN Fail(p, 400, "Invalid action type")
       ELSE Goto(p, [req[p] EXCEPT !.scoreValue = v], "getPreviousScore")
  /\ UNCHANGED <<history, idempotency, cache, broadcasts, faults>>

\* the cached snapshot is dropped before the event is written
GetPreviousScoreInvalidates(p) ==
  /\ req[p].pc = "getPreviousScore"
  /\ cache' = NoCache
  /\ Goto(p, [req[p] EXCEPT !.previousScore = getTotalScore(history, req[p].userId)],
          "addScoreHistory")
  /\ UNCHANGED <<history, idempotency, broadcasts, faults>>

\* const previousScore = await getTotalScore(this.db, userId)
GetPreviousScore(p) ==
  /\ req[p].pc = "getPreviousScore"
  /\ Goto(p, [req[p] EXCEPT !.previousScore = getTotalScore(history, req[p].userId)],
          "addScoreHistory")
  /\ UNCHANGED <<history, idempotency, cache, broadcasts, faults>>

\* the score is kept as one row per user, rewritten from the score read before
AddScoreHistoryOverwrites(p) ==
  /\ req[p].pc = "addScoreHistory"
  /\ history' = Append(SelectSeq(history, LAMBDA h : h.user_id # req[p].userId),
                       [id |-> p, user_id |-> req[p].userId,
                        action_type |-> req[p].actionType,
                        score_increase |-> req[p].previousScore + req[p].scoreValue])
  /\ Goto(p, req[p], "recordAction")
  /\ UNCHANGED <<idempotency, cache, broadcasts, faults>>

\* await addScoreHistory(this.db, historyEntry); the row id is a fresh uuid,
\* modelled by the request that made it
AddScoreHistory(p) ==
  /\ req[p].pc = "addScoreHistory"
  /\ history' = Append(history,
                       [id |-> p, user_id |-> req[p].userId,
                        action_type |-> req[p].actionType,
                        score_increase |-> req[p].scoreValue])
  /\ Goto(p, req[p], "recordAction")
  /\ UNCHANGED <<idempotency, cache, broadcasts, faults>>

\* await recordAction(this.db, actionId, userId): INSERT INTO idempotency;
\* action_id is the PRIMARY KEY, a second insert of it is rejected
RecordAction(p) ==
  /\ req[p].pc = "recordAction"
  /\ IF \E r \in idempotency : r.action_id = req[p].actionId
     THEN /\ Fail(p, 500, "SQLITE_CONSTRAINT")
          /\ UNCHANGED idempotency
     ELSE /\ idempotency' = idempotency \cup
                 {[action_id |-> req[p].actionId, user_id |-> req[p].userId]}
          /\ Goto(p, req[p], "getNewScore")
  /\ UNCHANGED <<history, cache, broadcasts, faults>>

\* const newScore = await getTotalScore(this.db, userId)
GetNewScore(p) ==
  /\ req[p].pc = "getNewScore"
  /\ Goto(p, [req[p] EXCEPT !.newScore = getTotalScore(history, req[p].userId)],
          "invalidateTop10")
  /\ UNCHANGED <<history, idempotency, cache, broadcasts, faults>>

\* the invalidation is left out: the snapshot stays
InvalidateTop10Skipped(p) ==
  /\ req[p].pc = "invalidateTop10"
  /\ Goto(p, req[p], "getUserRank")
  /\ UNCHANGED <<history, idempotency, cache, broadcasts, faults>>

\* await cacheService.invalidateTop10(): DEL leaderboard:top10
InvalidateTop10(p) ==
  /\ req[p].pc = "invalidateTop10"
  /\ cache' = NoCache
  /\ Goto(p, req[p], "getUserRank")
  /\ UNCHANGED <<history, idempotency, broadcasts, faults>>

\* the response reports the new total as the increase
GetUserRankReportsTotal(p) ==
  /\ req[p].pc = "getUserRank"
  /\ Respond(p, [req[p] EXCEPT !.rank = getUserRank(history, req[p].userId),
                               !.scoreIncrease = req[p].newScore,
                               !.status = 200])
  /\ UNCHANGED <<history, idempotency, cache, broadcasts, faults>>

\* const rank = await this.getUserRank(userId); return {...}; res.json(...)
GetUserRank(p) ==
  /\ req[p].pc = "getUserRank"
  /\ Respond(p, [req[p] EXCEPT !.rank = getUserRank(history, req[p].userId),
                               !.scoreIncrease = req[p].scoreValue,
                               !.status = 200])
  /\ UNCHANGED <<history, idempotency, cache, broadcasts, faults>>

\* ------------------------------------------------ GET /api/scores/top10
StartTop10(p) ==
  /\ CanStart(p)
  /\ Goto(p, [IdleReq EXCEPT !.kind = "top10", !.preceding = Done], "cacheGetTop10")
  /\ UNCHANGED <<history, idempotency, cache, broadcasts, faults>>

\* a hit is returned without cachedAt
CacheGetTop10Unflagged(p) ==
  /\ req[p].pc = "cacheGetTop10"
  /\ LET replies == zRangeRev(cache.members) IN
       IF Len(replies) > 0
       THEN Respond(p, [req[p] EXCEPT
                          !.scores = [i \in DOMAIN replies |->
                                        [rank |-> i, userId |-> replies[i].userId,
                                         score |-> replies[i].score]],
                          !.status = 200])
       ELSE Goto(p, req[p], "getAllUsersWithScores")
  /\ UNCHANGED <<history, idempotency, cache, broadcasts, faults>>

\* const cached = await cacheService.getTop10(); a hit is returned at once
CacheGetTop10(p) ==
  /\ req[p].pc = "cacheGetTop10"
  /\ LET replies == zRangeRev(cache.members) IN
       IF Len(replies) > 0
       THEN Respond(p, [req[p] EXCEPT
                          !.scores = [i \in DOMAIN replies |->
                                        [rank |-> i, userId |-> replies[i].userId,
                                         score |-> replies[i].score]],
                          !.cachedAt = TRUE, !.status = 200])
       ELSE Goto(p, req[p], "getAllUsersWithScores")
  /\ UNCHANGED <<history, idempotency, cache, broadcasts, faults>>

\* const allUsersWithScores = await this.getAllUsersWithScores()
GetAllUsersWithScores(p) ==
  /\ req[p].pc = "getAllUsersWithScores"
  /\ \E rows \in getAllUsersWithScores(history) :
       Goto(p, [req[p] EXCEPT !.rows = rows], "cacheDel")
  /\ UNCHANGED <<history, idempotency, cache, broadcasts, faults>>

\* the rows getTop10 returns on a miss: rank i + 1 over slice(0, 10)
MissScores(rows) ==
  [i \in DOMAIN Slice10(rows) |->
     [rank |-> i, userId |-> rows[i].id, score |-> rows[i].totalScore]]

\* cacheTop10: await this.client.del(TOP10_KEY); if (scores.length === 0) return
CacheDel(p) ==
  /\ req[p].pc = "cacheDel"
  /\ cache' = NoCache
  /\ IF Len(req[p].rows) = 0
     THEN Respond(p, [req[p] EXCEPT !.scores = MissScores(req[p].rows),
                                    !.status = 200])
     ELSE Goto(p, req[p], "cacheZAdd")
  /\ UNCHANGED <<history, idempotency, broadcasts, faults>>

\* cacheTop10: await this.client.zAdd(TOP10_KEY, members)
CacheZAdd(p) ==
  /\ req[p].pc = "cacheZAdd"
  /\ LET top10 == [i \in DOMAIN Slice10(req[p].rows) |->
                     [userId |-> req[p].rows[i].id,
                      score |-> req[p].rows[i].totalScore]]
     IN cache' = [cache EXCEPT !.members = zAdd(cache.members, Top10Members(top10))]
  /\ Goto(p, req[p], "cacheExpire")
  /\ UNCHANGED <<history, idempotency, broadcasts, faults>>

\* cacheTop10: await this.client.expire(TOP10_KEY, TTL); then return { scores }
CacheExpire(p) ==
  /\ req[p].pc = "cacheExpire"
  /\ cache' = [cache EXCEPT !.ttl = (cache.members # {})]
  /\ Respond(p, [req[p] EXCEPT !.scores = MissScores(req[p].rows), !.status = 200])
  /\ UNCHANGED <<history, idempotency, broadcasts, faults>>

\* ------------------------------------------- GET /api/scores/user/:userId
\* the user lookup is left out: getUserScoreAndRank is called for any id
StartUserScoreUnchecked(p, u) ==
  /\ CanStart(p)
  /\ Goto(p, [IdleReq EXCEPT !.kind = "userScore", !.userId = u,
                             !.preceding = Done],
          "queryGetTotalScore")
  /\ UNCHANGED <<history, idempotency, cache, broadcasts, faults>>

\* const user = await getUserById(db, userId); if (!user) return 404;
\* otherwise getUserScoreAndRank is called
StartUserScore(p, u) ==
  /\ CanStart(p)
  /\ IF u \in Users
     THEN Goto(p, [IdleReq EXCEPT !.kind = "userScore", !.userId = u,
                                  !.preceding = Done],
               "queryGetTotalScore")
     ELSE Respond(p, [IdleReq EXCEPT !.kind = "userScore", !.userId = u,
                                     !.status = 404, !.error = "User not found",
                                     !.preceding = Done])
  /\ UNCHANGED <<history, idempotency, cache, broadcasts, faults>>

\* the same requests sent by the client that awaits each response
StartUserScoreInTurn(p, u) == InTurn /\ StartUserScore(p, u)

StartTop10InTurn(p) == InTurn /\ StartTop10(p)

\* const score = await getTotalScore(this.db, userId)
QueryGetTotalScore(p) ==
  /\ req[p].pc = "queryGetTotalScore"
  /\ Goto(p, [req[p] EXCEPT !.score = getTotalScore(history, req[p].userId)],
          "queryGetUserRank")
  /\ UNCHANGED <<history, idempotency, cache, broadcasts, faults>>

\* const rank = await this.getUserRank(userId); return { score, rank }
QueryGetUserRank(p) ==
  /\ req[p].pc = "queryGetUserRank"
  /\ Respond(p, [req[p] EXCEPT !.rank = getUserRank(history, req[p].userId),
                               !.status = 200])
  /\ UNCHANGED <<history, idempotency, cache, broadcasts, faults>>

\* ------------------------------------------------------------ environment
\* Redis drops the key once its TTL has run out
KeyExpires ==
  /\ cache.ttl
  /\ cache' = [NoCache EXCEPT !.expired = TRUE]
  /\ UNCHANGED <<history, idempotency, broadcasts, req, faults>>
  /\ UNCHANGED <<userStoreVars, calc, agg, registerVars>>

StoreSteps ==
  {"isActionProcessed", "replayGetTotalScore", "replayGetUserRank",
   "getActionScoreValue", "getPreviousScore", "addScoreHistory", "recordAction",
   "getNewScore", "getUserRank", "getAllUsersWithScores",
   "queryGetTotalScore", "queryGetUserRank"}

\* a statement fails for infrastructural reasons: the promise rejects, the
\* handler's catch answers 500
StoreFault(p) ==
  /\ req[p].pc \in StoreSteps
  /\ faults < MaxFaults
  /\ faults' = faults + 1
  /\ Fail(p, 500, "StoreUnavailable")
  /\ UNCHANGED <<history, idempotency, cache, broadcasts>>

CacheSteps ==
  {"cacheGetTop10", "cacheDel", "cacheZAdd", "cacheExpire", "invalidateTop10"}

\* a Redis command fails (client not connected, connection lost): CacheService
\* rethrows, neither getTop10 nor updateScore handles it apart from logging,
\* and the route's catch answers 500
CacheFault(p) ==
  /\ req[p].pc \in CacheSteps
  /\ faults < MaxFaults
  /\ faults' = faults + 1
  /\ Fail(p, 500, "CacheUnavailable")
  /\ UNCHANGED <<history, idempotency, cache, broadcasts>>

Next ==
  \/ \E p \in Procs, u \in Users, a \in ActionIds, t \in ActionTypes :
       StartUpdate(p, u, a, t)
  \/ \E p \in Procs : IsActionProcessed(p)
  \/ \E p \in Procs : ReplayGetTotalScore(p)
  \/ \E p \in Procs : ReplayGetUserRank(p)
  \/ \E p \in Procs : GetActionScoreValue(p)
  \/ \E p \in Procs : GetPreviousScore(p)
  \/ \E p \in Procs : AddScoreHistory(p)
  \/ \E p \in Procs : RecordAction(p)
  \/ \E p \in Procs : GetNewScore(p)
  \/ \E p \in Procs : InvalidateTop10(p)
  \/ \E p \in Procs : GetUserRank(p)
  \/ \E p \in Procs : StartTop10(p)
  \/ \E p \in Procs : CacheGetTop10(p)
  \/ \E p \in Procs : GetAllUsersWithScores(p)
  \/ \E p \in Procs : CacheDel(p)
  \/ \E p \in Procs : CacheZAdd(p)
  \/ \E p \in Procs : CacheExpire(p)
  \/ \E p \in Procs : StoreFault(p)
  \/ \E p \in Procs : CacheFault(p)
  \/ KeyExpires

Spec == Init /\ [][Next]_vars

\* The score updates together with the single-user queries.  The queries only
\* read the store, so leaving them out of Next takes no behaviour away from
\* the updates and the top-10 reads there.
NextRank ==
  \/ \E p \in Procs, u \in Users, a \in ActionIds, t \in ActionTypes :
       StartUpdate(p, u, a, t)
  \/ \E p \in Procs : IsActionProcessed(p)
  \/ \E p \in Procs : ReplayGetTotalScore(p)
  \/ \E p \in Procs : ReplayGetUserRank(p)
  \/ \E p \in Procs : GetActionScoreValue(p)
  \/ \E p \in Procs : GetPreviousScore(p)
  \/ \E p \in Procs : AddScoreHistory(p)
  \/ \E p \in Procs : RecordAction(p)
  \/ \E p \in Procs : GetNewScore(p)
  \/ \E p \in Procs : InvalidateTop10(p)
  \/ \E p \in Procs : GetUserRank(p)
  \/ \E p \in Procs, u \in Users : StartUserScore(p, u)
  \/ \E p \in Procs : QueryGetTotalScore(p)
  \/ \E p \in Procs : QueryGetUserRank(p)
  \/ \E p \in Procs : StoreFault(p)
  \/ \E p \in Procs : CacheFault(p)

SpecRank == Init /\ [][NextRank]_vars

\* One client that sends its requests one after the other: score updates,
\* requests the route turns away, single-user queries and top-10 reads.
NextSeq ==
  \/ \E p \in Procs, u \in Users, a \in ActionIds, t \in ActionTypes :
       StartUpdateInTurn(p, u, a, t)
  \/ \E p \in Procs : RejectedUpdate(p)
  \/ \E p \in Procs, u \in Users \cup UnknownUsers : StartUserScoreInTurn(p, u)
  \/ \E p \in Procs : QueryGetTotalScore(p)
  \/ \E p \in Procs : QueryGetUserRank(p)
  \/ \E p \in Procs : StartTop10InTurn(p)
  \/ \E p \in Procs : CacheGetTop10(p)
  \/ \E p \in Procs : GetAllUsersWithScores(p)
  \/ \E p \in Procs : CacheDel(p)
  \/ \E p \in Procs : CacheZAdd(p)
  \/ \E p \in Procs : CacheExpire(p)
  \/ KeyExpires
  \/ \E p \in Procs : IsActionProcessed(p)
  \/ \E p \in Procs : ReplayGetTotalScore(p)
  \/ \E p \in Procs : ReplayGetUserRank(p)
  \/ \E p \in Procs : GetActionScoreValue(p)
  \/ \E p \in Procs : GetPreviousScore(p)
  \/ \E p \in Procs : AddScoreHistory(p)
  \/ \E p \in Procs : RecordAction(p)
  \/ \E p \in Procs : GetNewScore(p)
  \/ \E p \in Procs : InvalidateTop10(p)
  \/ \E p \in Procs : GetUserRank(p)
  \/ \E p \in Procs : StoreFault(p)
  \/ \E p \in Procs : CacheFault(p)

SpecSeq == Init /\ [][NextSeq]_vars


\* ------------------------------------------------------------- vocabulary
IsUpdate(p) == req[p].kind = "update"
IsTop10(p) == req[p].kind = "top10"
Answered(p) == req[p].pc = "done"
ValidAction(p) == getActionScoreValue(req[p].actionType) # 0
StoreFailed(p) == req[p].error = "StoreUnavailable"

\* the two calls overlapped: neither was answered before the other began
Concurrent(p, q) ==
  /\ p \in Started /\ q \in Started
  /\ p \notin req[q].preceding /\ q \notin req[p].preceding

\* no other call was in flight while p ran
Alone(p) ==
  \A q \in Started \ {p} : q \in req[p].preceding \/ p \in req[q].preceding

\* the ScoreEvents written by calls that carried event id a
EventsFor(a) == {i \in DOMAIN history : req[history[i].id].actionId = a}

\* the ScoreEvent written by call p, if any
EventOf(p) == {i \in DOMAIN history : history[i].id = p}

RECURSIVE SumValues(_)
SumValues(S) ==
  IF S = {} THEN 0
  ELSE LET p == CHOOSE x \in S : TRUE
       IN getActionScoreValue(req[p].actionType) + SumValues(S \ {p})

\* two answered calls that raced on one event id with valid actions, no store fault
RacedOnOneId(p, q) ==
  /\ p # q /\ IsUpdate(p) /\ IsUpdate(q)
  /\ Answered(p) /\ Answered(q)
  /\ req[p].actionId = req[q].actionId
  /\ req[p].userId = req[q].userId
  /\ ValidAction(p) /\ ValidAction(q)
  /\ ~StoreFailed(p) /\ ~StoreFailed(q)
  /\ Concurrent(p, q)

\* ------------------------------------------------------------------ claims
\* C1: two concurrent updateScore calls with the same eventId and a valid
\* actionKind record exactly one ScoreEvent, so the score grows by one catalog
\* value, under every interleaving.
C1_RaceRecordsOneEvent ==
  \A p, q \in Procs :
    RacedOnOneId(p, q) =>
      /\ Cardinality(EventsFor(req[p].actionId)) = 1
      /\ getTotalScore(history, req[p].userId)
           \in {getActionScoreValue(req[p].actionType),
                getActionScoreValue(req[q].actionType)}

\* C2: when two updateScore calls race on one eventId neither ends in an error;
\* the loser gets the replay response (delta 0, previousScore = newScore).
C2_RaceLoserGetsReplay ==
  \A p, q \in Procs :
    RacedOnOneId(p, q) =>
      /\ req[p].status = 200 /\ req[q].status = 200
      /\ \E l \in {p, q} :
           req[l].scoreIncrease = 0 /\ req[l].previousScore = req[l].newScore


\* a first call r1 and a later call r2 of the same user with the same event id,
\* made in sequence, no other call carrying that id, and no ScoreEvent written
\* by anyone else since r1 wrote its own
TwiceInSequence(r1, r2) ==
  /\ r1 # r2 /\ IsUpdate(r1) /\ IsUpdate(r2)
  /\ Answered(r1) /\ req[r1].status = 200
  /\ Answered(r2) /\ ~StoreFailed(r2)
  /\ r1 \in req[r2].preceding
  /\ req[r1].userId = req[r2].userId
  /\ req[r1].actionId = req[r2].actionId
  /\ \A q \in Updates \ {r1, r2} : req[q].actionId # req[r1].actionId
  /\ \E i \in EventOf(r1) : \A j \in DOMAIN history : j > i => history[j].id = r2

\* C3: updateScore called twice in sequence with the same eventId for the same
\* user, with no other write in between, answers the same newScore and rank
\* both times, the second time with scoreIncrease 0, and the log holds exactly
\* one ScoreEvent for that eventId.
C3_SequentialReplayIdempotent ==
  \A r1, r2 \in Procs :
    TwiceInSequence(r1, r2) =>
      /\ req[r2].status = 200
      /\ req[r2].newScore = req[r1].newScore
      /\ req[r2].rank = req[r1].rank
      /\ req[r2].scoreIncrease = 0
      /\ Cardinality(EventsFor(req[r1].actionId)) = 1

\* a replay with another actionKind than the first call was answered 50 / 50
C3_Witness ==
  \E r1, r2 \in Procs :
    /\ TwiceInSequence(r1, r2)
    /\ req[r2].status = 200
    /\ req[r1].newScore = 50 /\ req[r2].newScore = 50
    /\ req[r1].actionType # req[r2].actionType


\* the call whose step this is
Steps(p) == req'[p] # req[p]

\* C4: once an eventId is in the idempotency table, a later updateScore call
\* carrying it, by any user and with any actionKind, changes no user's score.
C4_ProcessedIdChangesNoScore ==
  [][\A p \in Procs :
       (req[p].idKnownAtStart /\ Steps(p)) =>
          \A u \in Users : getTotalScore(history', u) = getTotalScore(history, u)]_vars

\* a later call with a processed id, by another user and with another action
\* than the call that recorded it, has been answered
C4_Witness ==
  \E p, w \in Procs :
    /\ IsUpdate(p) /\ Answered(p) /\ req[p].idKnownAtStart /\ req[p].status = 200
    /\ EventOf(w) # {} /\ req[w].actionId = req[p].actionId
    /\ req[w].userId # req[p].userId
    /\ req[w].actionType # req[p].actionType /\ ValidAction(p)

\* the call is a replay: it is in, or about to enter, the already-processed branch
Replaying(p) ==
  \/ req[p].pc \in {"replayGetTotalScore", "replayGetUserRank"}
  \/ /\ req[p].pc = "isActionProcessed"
     /\ req[p].actionId \in {r.action_id : r \in idempotency}

\* C5: a replayed updateScore writes nothing to the event log or the
\* idempotency table, leaves the Rank Cache as it is and publishes nothing.
C5_ReplayIsNoOp ==
  [][\A p \in Procs :
       (Replaying(p) /\ Steps(p)) =>
          UNCHANGED <<history, idempotency, cache, broadcasts>>]_vars

\* a replay has been answered while a snapshot sits in the cache
C5_Witness ==
  \E p \in Procs :
    /\ IsUpdate(p) /\ Answered(p) /\ req[p].status = 200
    /\ req[p].idKnownAtStart /\ req[p].scoreIncrease = 0
    /\ cache.members # {}


\* the updateScore calls made for user u
UpdatesOf(u) == {p \in Updates : req[p].userId = u}

\* every call made for u so far was accepted, and the event ids of u's calls
\* are pairwise distinct and used by no other call
AllDistinctAccepted(u) ==
  /\ UpdatesOf(u) # {}
  /\ \A p \in UpdatesOf(u) : Answered(p) /\ req[p].status = 200
  /\ \A p \in UpdatesOf(u) : \A q \in Updates \ {p} : req[q].actionId # req[p].actionId

\* C6: once all updateScore calls with pairwise distinct eventIds for a user
\* have completed, sequentially or concurrently, the user's score is the sum of
\* the catalog values of the submitted actions.
C6_ScoreIsSumOfCatalogValues ==
  \A u \in Users :
    AllDistinctAccepted(u) =>
      getTotalScore(history, u) = SumValues(UpdatesOf(u))

\* two calls of one user overlapped (both read the score 0 before either wrote)
\* and the score is the sum of both
C6_Witness ==
  \E p, q \in Procs :
    /\ p # q /\ req[p].userId = req[q].userId
    /\ AllDistinctAccepted(req[p].userId)
    /\ {p, q} \subseteq UpdatesOf(req[p].userId)
    /\ Concurrent(p, q)
    /\ req[p].previousScore = 0 /\ req[q].previousScore = 0
    /\ req[p].actionType # req[q].actionType
    /\ getTotalScore(history, req[p].userId) = 75


\* C7: the ScoreEvent and the ProcessedEventRecord of an eventId are one atomic
\* unit: in every state another request can observe, both exist or neither.
C7_EventAndRecordAtomic ==
  /\ \A i \in DOMAIN history :
        req[history[i].id].actionId \in {r.action_id : r \in idempotency}
  /\ \A r \in idempotency : EventsFor(r.action_id) # {}

\* a failed call p and its retry r: same user, event id and action, made after p
\* was answered; no other call for that user or with that event id
FailedThenRetried(p, r) ==
  /\ p # r /\ IsUpdate(p) /\ IsUpdate(r)
  /\ Answered(p) /\ StoreFailed(p)
  /\ Answered(r) /\ req[r].status = 200
  /\ p \in req[r].preceding
  /\ req[r].userId = req[p].userId
  /\ req[r].actionId = req[p].actionId
  /\ req[r].actionType = req[p].actionType
  /\ \A q \in Updates \ {p, r} :
        req[q].userId # req[p].userId /\ req[q].actionId # req[p].actionId

\* C8: an updateScore that fails on a durable-store step leaves no partial
\* state, so a retry with the same eventId counts the event exactly once.
C8_FailedCallLeavesNothing ==
  \A p, r \in Procs :
    FailedThenRetried(p, r) =>
      /\ Cardinality(EventsFor(req[p].actionId)) = 1
      /\ getTotalScore(history, req[p].userId)
           = getActionScoreValue(req[p].actionType)

\* the score of w's user once w's ScoreEvent was written
ScoreThrough(w) ==
  LET i == CHOOSE k \in EventOf(w) : TRUE
  IN getTotalScore(SubSeq(history, 1, i), req[w].userId)

\* C9: after a score write has committed and invalidated the cache, no later
\* getTop10 returns a leaderboard computed before that write, even when
\* another getTop10 that missed the cache was in flight during the write.
C9_NoStaleTopAfterWrite ==
  \A w, t \in Procs :
    ( /\ IsUpdate(w) /\ Answered(w) /\ req[w].status = 200 /\ EventOf(w) # {}
      /\ IsTop10(t) /\ Answered(t) /\ req[t].status = 200
      /\ w \in req[t].preceding )
    => \A k \in DOMAIN req[t].scores :
          req[t].scores[k].userId = req[w].userId
            => req[t].scores[k].score >= ScoreThrough(w)

\* an accepted update w that ran with no other request in flight, and the first
\* getTop10 t issued after it, also run alone
ReadAfterWriteAlone(w, t) ==
  /\ IsUpdate(w) /\ Answered(w) /\ req[w].status = 200 /\ EventOf(w) # {}
  /\ IsTop10(t) /\ Answered(t) /\ req[t].status = 200
  /\ Alone(w) /\ Alone(t)
  /\ req[t].preceding = req[w].preceding \cup {w}

ConsecutiveReads(t1, t2) ==
  /\ IsTop10(t1) /\ Answered(t1) /\ req[t1].status = 200
  /\ IsTop10(t2)
  /\ Alone(t1) /\ Alone(t2)
  /\ req[t2].preceding = req[t1].preceding \cup {t1}

C12_CacheFaultFallsBack ==
  \A t \in Procs :
    (IsTop10(t) /\ Answered(t) /\ ~StoreFailed(t)) => req[t].status = 200


\* C13: a cache invalidation that fails after the event was recorded is
\* absorbed: a call whose ScoreEvent and ProcessedEventRecord are both in the
\* store is answered with success.
C13_CacheFaultAbsorbed ==
  \A p \in Procs :
    ( /\ IsUpdate(p) /\ Answered(p)
      /\ EventOf(p) # {}
      /\ [action_id |-> req[p].actionId, user_id |-> req[p].userId] \in idempotency
      /\ ~StoreFailed(p) /\ req[p].error # "SQLITE_CONSTRAINT" )
    => req[p].status = 200


\* no request is in flight: no handler has a step left to take
Quiescent == \A q \in Procs : req[q].pc \in {"idle", "done"}

\* the change notifications published for the accepted call p
NotificationsOf(p) ==
  {i \in DOMAIN broadcasts :
     broadcasts[i] = [userId |-> req[p].userId, newScore |-> req[p].newScore,
                      scoreIncrease |-> req[p].scoreIncrease, rank |-> req[p].rank]}

\* C14: every accepted (successful, non-replayed) updateScore is followed by
\* exactly one change notification {userId, newScore, delta, rank}: once no
\* request is in flight any more, one notification exists for each accepted call.
C14_AcceptedUpdatePublishesOnce ==
  Quiescent =>
    \A p \in Procs :
      (IsUpdate(p) /\ Answered(p) /\ req[p].status = 200 /\ EventOf(p) # {})
        => Cardinality(NotificationsOf(p)) = 1

\* the call was answered 500 after an injected store or cache failure
Faulted(p) == req[p].error \in {"StoreUnavailable", "CacheUnavailable"}

ProcessedIds == {r.action_id : r \in idempotency}

\* a call p rejected for its action type, and a later call r that carries the
\* same event id with a valid action; no third call carries that id
RejectedThenApplied(p, r) ==
  /\ p # r /\ IsUpdate(p) /\ IsUpdate(r)
  /\ Answered(p) /\ req[p].status = 400
  /\ Answered(r) /\ ~Faulted(r)
  /\ p \in req[r].preceding
  /\ req[r].actionId = req[p].actionId
  /\ ValidAction(r)
  /\ \A q \in Updates \ {p, r} : req[q].actionId # req[p].actionId

\* C15: an updateScore call whose actionKind is not in the catalog and whose
\* eventId is new is answered 400 (Invalid action type) and records nothing:
\* no ScoreEvent, no ProcessedEventRecord, no cache invalidation, no
\* notification; the same eventId is accepted later with a valid action.
C15_UnknownActionRecordsNothing ==
  /\ [][\A p \in Procs :
          ( /\ req[p].pc = "getActionScoreValue" /\ Steps(p)
            /\ ~ValidAction(p) /\ faults' = faults )
          => /\ req'[p].pc = "done"
             /\ req'[p].status = 400 /\ req'[p].error = "Invalid action type"
             /\ UNCHANGED <<history, idempotency, cache, broadcasts>>]_vars
  /\ [](\A p, r \in Procs :
          RejectedThenApplied(p, r) =>
            /\ EventOf(p) = {}
            /\ ~req[r].idKnownAtStart
            /\ req[r].status = 200
            /\ req[r].scoreIncrease = getActionScoreValue(req[r].actionType)
            /\ Cardinality(EventsFor(req[r].actionId)) = 1)

\* e1 was rejected with an unknown action, then accepted for the same user
\* with quest_complete
C15_Witness ==
  \E p, r \in Procs :
    /\ RejectedThenApplied(p, r)
    /\ req[r].userId = req[p].userId
    /\ req[r].status = 200 /\ req[r].scoreIncrease = 50
    /\ req[p].actionId \in ProcessedIds


\* C16 as stated: updateScore fails with UnknownAction whenever the actionKind
\* is not in the catalog, for every eventId, an already processed one included.
C16_UnknownActionAlwaysFails ==
  \A p \in Procs :
    (IsUpdate(p) /\ Answered(p) /\ ~ValidAction(p) /\ ~Faulted(p))
      => req[p].status = 400 /\ req[p].error = "Invalid action type"

\* C16 amended: a call whose actionKind is not in the catalog never records
\* anything; it fails with UnknownAction (400) when its eventId is not yet
\* processed, and is answered as a replay (200, delta 0, previousScore =
\* newScore) when the eventId was already processed.
C16_UnknownActionFailsUnlessReplay ==
  \A p \in Procs :
    (IsUpdate(p) /\ Answered(p) /\ ~ValidAction(p) /\ ~Faulted(p))
      => /\ EventOf(p) = {}
         /\ \/ /\ req[p].status = 400 /\ req[p].error = "Invalid action type"
               /\ ~req[p].idKnownAtStart
            \/ /\ req[p].status = 200 /\ req[p].scoreIncrease = 0
               /\ req[p].previousScore = req[p].newScore
               /\ req[p].actionId \in ProcessedIds
         /\ req[p].actionId \notin ProcessedIds => req[p].status = 400

\* a call with an unknown action and an event id that another call had
\* recorded was answered as a replay
C16_Witness ==
  \E p, w \in Procs :
    /\ IsUpdate(p) /\ Answered(p) /\ ~ValidAction(p)
    /\ req[p].idKnownAtStart /\ req[p].status = 200 /\ req[p].newScore = 50
    /\ EventOf(w) # {} /\ req[w].actionId = req[p].actionId
    /\ req[w].userId = req[p].userId

\* every updateScore call made so far was answered with success
AllUpdatesAccepted == \A w \in Updates : Answered(w) /\ req[w].status = 200

\* C17: the rank of a user in a freshly computed getTop10 result equals the
\* rank getUserScoreAndRank gives for that user on the same store state, for
\* every user listed with a score, tied users included.
C17_Top10RankEqualsUserRank ==
  [][\A p \in Procs :
       ( /\ req[p].pc = "getAllUsersWithScores" /\ req'[p].pc = "cacheDel"
         /\ AllUpdatesAccepted )
       => \A i \in DOMAIN MissScores(req'[p].rows) :
            MissScores(req'[p].rows)[i].score > 0
              => MissScores(req'[p].rows)[i].rank
                   = getUserScoreAndRank(history,
                                         MissScores(req'[p].rows)[i].userId).rank]_vars


\* every ScoreEvent in the log was written by a call answered before t began:
\* no event arrived while t ran or after it
NoNewEventsSince(t) == \A i \in DOMAIN history : history[i].id \in req[t].preceding

IsUserScore(p) == req[p].kind = "userScore"

\* the position of user u in the result of t (0 if not listed)
PositionIn(t, u) ==
  IF \E k \in DOMAIN req[t].scores : req[t].scores[k].userId = u
  THEN CHOOSE k \in DOMAIN req[t].scores : req[t].scores[k].userId = u
  ELSE 0

\* C18: absent new events, two users with identical scores appear in the same
\* relative order in every getTop10 result, cached or recomputed.
C18_TiedUsersKeepOrder ==
  \A t1, t2 \in Procs :
    ( /\ IsTop10(t1) /\ Answered(t1) /\ req[t1].status = 200
      /\ IsTop10(t2) /\ Answered(t2) /\ req[t2].status = 200
      /\ NoNewEventsSince(t1) /\ NoNewEventsSince(t2) )
    => \A u, v \in Users :
         ( /\ getTotalScore(history, u) = getTotalScore(history, v)
           /\ PositionIn(t1, u) # 0 /\ PositionIn(t1, v) # 0
           /\ PositionIn(t2, u) # 0 /\ PositionIn(t2, v) # 0 )
         => (PositionIn(t1, u) < PositionIn(t1, v)
               <=> PositionIn(t2, u) < PositionIn(t2, v))


\* the position in the log of the event that brought u to its present score
LastEvent(u) ==
  LET own == {i \in DOMAIN history : history[i].user_id = u}
  IN IF own = {} THEN 0 ELSE CHOOSE i \in own : \A j \in own : j <= i

\* C19: when two users have equal scores, the one who reached that score
\* earlier is listed at the better rank by getTop10.
C19_EarlierScorerRanksFirst ==
  \A t \in Procs :
    ( /\ IsTop10(t) /\ Answered(t) /\ req[t].status = 200
      /\ NoNewEventsSince(t) /\ AllUpdatesAccepted )
    => \A u, v \in Users :
         ( /\ getTotalScore(history, u) = getTotalScore(history, v)
           /\ LastEvent(u) # 0 /\ LastEvent(u) < LastEvent(v)
           /\ PositionIn(t, u) # 0 /\ PositionIn(t, v) # 0 )
         => req[t].scores[PositionIn(t, u)].rank < req[t].scores[PositionIn(t, v)].rank


\* C20: the ranks getUserScoreAndRank returns are 1-based and strictly
\* determined by score descending: in every store state the rank of every user
\* is at least 1 and a user with a strictly higher score has a strictly
\* smaller rank than a user with a lower score; an answered query that met no
\* new event returns exactly that score and rank.
C20_RankOneBasedByScoreDescending ==
  /\ \A u, v \in Users :
       /\ getUserScoreAndRank(history, u).rank >= 1
       /\ getUserScoreAndRank(history, u).score > getUserScoreAndRank(history, v).score
            => getUserScoreAndRank(history, u).rank < getUserScoreAndRank(history, v).rank
  /\ \A q \in Procs :
       (IsUserScore(q) /\ Answered(q) /\ req[q].status = 200)
         => /\ req[q].rank >= 1
            /\ NoNewEventsSince(q)
                 => [score |-> req[q].score, rank |-> req[q].rank]
                      = getUserScoreAndRank(history, req[q].userId)

\* A has 50 and B has 25, and a query for B was answered score 25, rank 2
C20_Witness ==
  \E q \in Procs :
    /\ IsUserScore(q) /\ Answered(q) /\ req[q].status = 200 /\ NoNewEventsSince(q)
    /\ req[q].userId = "B" /\ req[q].score = 25 /\ req[q].rank = 2
    /\ getUserScoreAndRank(history, "A") = [score |-> 50, rank |-> 1]

\* the sum of pointsAwarded over the rows of the log whose positions are in S
RECURSIVE SumOfRows(_)
SumOfRows(S) ==
  IF S = {} THEN 0
  ELSE LET i == CHOOSE x \in S : TRUE
       IN history[i].score_increase + SumOfRows(S \ {i})

\* the ScoreEvents recorded for user u
EventsOfUser(u) == {i \in DOMAIN history : history[i].user_id = u}

\* C21: in every reachable state the score getUserScoreAndRank returns for a
\* user is the sum of pointsAwarded over that user's ScoreEvents and is the
\* total the grouped aggregation of the top-N path computes for the user; a
\* query that met no new event was answered with exactly that sum.
C21_ScoreIsSumOfEvents ==
  /\ \A u \in Users :
       /\ getUserScoreAndRank(history, u).score = SumOfRows(EventsOfUser(u))
       /\ \A rows \in getAllUsersWithScores(history) :
            \A i \in DOMAIN rows :
              rows[i].id = u => rows[i].totalScore = getUserScoreAndRank(history, u).score
  /\ \A q \in Procs :
       (IsUserScore(q) /\ Answered(q) /\ req[q].status = 200 /\ NoNewEventsSince(q))
         => req[q].score = SumOfRows(EventsOfUser(req[q].userId))

\* a user with two ScoreEvents (50 and 25) was answered score 75
C21_Witness ==
  \E q \in Procs :
    /\ IsUserScore(q) /\ Answered(q) /\ req[q].status = 200 /\ NoNewEventsSince(q)
    /\ Cardinality(EventsOfUser(req[q].userId)) = 2
    /\ req[q].score = 75

\* the score of p's user made of the events of the calls answered before p began
ScoreBefore(p) ==
  SumOfRows({i \in EventsOfUser(req[p].userId) : history[i].id \in req[p].preceding})

\* C22: in a sequential run every updateScore answered with success returns
\* previousScore = the user's score before the call, scoreIncrease = the
\* catalog value of the action (0 for a replay) and newScore = previousScore +
\* scoreIncrease.
C22_SequentialResponseFields ==
  \A p \in Procs :
    (IsUpdate(p) /\ Answered(p) /\ req[p].status = 200)
      => /\ req[p].previousScore = ScoreBefore(p)
         /\ req[p].newScore = req[p].previousScore + req[p].scoreIncrease
         /\ req[p].idKnownAtStart => req[p].scoreIncrease = 0 /\ EventOf(p) = {}
         /\ ~req[p].idKnownAtStart =>
              /\ req[p].scoreIncrease = getActionScoreValue(req[p].actionType)
              /\ EventOf(p) # {}

\* the scenario of the claim: e1 quest_complete {0, 50, 50}, e1 again
\* {50, 50, 0}, then e2 achievement {50, 75, 25}, all by user A
C22_Witness ==
  /\ \A p \in 1..3 : IsUpdate(p) /\ Answered(p) /\ req[p].status = 200 /\ req[p].userId = "A"
  /\ req[1].actionId = "e1" /\ req[1].actionType = "quest_complete"
  /\ <<req[1].previousScore, req[1].newScore, req[1].scoreIncrease>> = <<0, 50, 50>>
  /\ req[2].actionId = "e1"
  /\ <<req[2].previousScore, req[2].newScore, req[2].scoreIncrease>> = <<50, 50, 0>>
  /\ req[3].actionId = "e2" /\ req[3].actionType = "achievement"
  /\ <<req[3].previousScore, req[3].newScore, req[3].scoreIncrease>> = <<50, 75, 25>>

\* the leaderboards an aggregation can compute from the log as it was after
\* its first n rows (the log only grows, so these are all the past store states)
SnapshotsOf(n) ==
  {MissScores(rows) : rows \in getAllUsersWithScores(SubSeq(history, 1, n))}

\* what a cache read (CacheService.getTop10) returns in the present state
CachedScores ==
  LET replies == zRangeRev(cache.members)
  IN [i \in DOMAIN replies |->
        [rank |-> i, userId |-> replies[i].userId, score |-> replies[i].score]]

\* C23: every getTop10 result served from the cache is one complete snapshot
\* produced by a single aggregation, never a partially written snapshot or a
\* mixture of the entries of two replace operations: in every state, what a
\* cache read returns is empty or the leaderboard of one past store state.
C23_HitIsOneSnapshot ==
  \/ CachedScores = <<>>
  \/ \E n \in 0..Len(history) : CachedScores \in SnapshotsOf(n)

IsRejected(p) == req[p].kind = "rejected"

\* C28: a score update request that is turned away before it reaches
\* updateScore (401 for a missing or invalid token, 400 for a missing or
\* non-string actionId or actionType, 404 for a user id without a user row)
\* changes nothing: event log, idempotency table and cache stay as they were.
C28_RejectedRequestChangesNothing ==
  [][\A p \in Procs :
       (Steps(p) /\ req'[p].kind = "rejected")
         => /\ req'[p].status \in {400, 401, 404}
            /\ UNCHANGED <<history, idempotency, cache, broadcasts>>]_vars

\* requests were turned away with 400 and 404 while a snapshot sat in the cache
C28_Witness ==
  \E p, q \in Procs :
    /\ IsRejected(p) /\ req[p].status = 400
    /\ IsRejected(q) /\ req[q].status = 404
    /\ cache.members # {}

\* C25: before any score event has been recorded, getTop10 returns an empty
\* list of scores, even when users are already registered.
C25_EmptyTopBeforeAnyEvent ==
  \A t \in Procs :
    (IsTop10(t) /\ Answered(t) /\ req[t].status = 200 /\ history = <<>>)
      => req[t].scores = <<>>


\* the table rows that exist now existed before, unchanged, in the same order
IsPrefix(s, t) == Len(s) <= Len(t) /\ SubSeq(t, 1, Len(s)) = s

\* C26: the event log and the idempotency table are append-only: no step of
\* the service deletes or modifies a ScoreEvent or a ProcessedEventRecord.
C26_AppendOnly ==
  [][IsPrefix(history, history') /\ idempotency \subseteq idempotency']_vars

\* two ScoreEvents and two ProcessedEventRecords have been recorded
C26_Witness == Len(history) = 2 /\ Cardinality(idempotency) = 2


\* C27: a cached snapshot is never served once the ttl has elapsed since it
\* was written: every snapshot present in the cache carries an expiry (once
\* the request that wrote it is over), and a cache hit does not extend it.
C27_SnapshotCarriesExpiry ==
  (Quiescent /\ cache.members # {}) => cache.ttl

\* ------------------------------------------------ problem5: /users routes
\* res.status(code).json(...): the handler is over
UserRespond(c, op, code, message) ==
  userReq' = [userReq EXCEPT ![c] = [IdleUserReq EXCEPT !.pc = "done",
                                       !.op = op, !.status = code,
                                       !.error = message]]

UserGoto(c, op, id, b, label) ==
  userReq' = [userReq EXCEPT ![c] = [IdleUserReq EXCEPT !.pc = label,
                                       !.op = op, !.id = id, !.body = b]]

\* a client sends its next request once the last one is answered
ClientIdle(c) == userReq[c].pc \in {"idle", "done"}

RowsOf(table, id) == {u \in table : u.id = id}

\* the column email carries no constraint
UniqueViolationNever(table, id, email) == FALSE

\* email TEXT NOT NULL UNIQUE: the statement would put the email of another
\* row into the row id
UniqueViolation(table, id, email) ==
  \E v \in table : v.id # id /\ v.email = email

\* POST /users: the body is validated, then createUser is awaited
PostUsers(c, b) ==
  /\ ClientIdle(c)
  /\ IF BodyFields \ b.present # {}
       THEN UserRespond(c, "create", 400,
                        "Missing required fields: name, email, age")
       ELSE IF b.age = NegativeAge
         THEN UserRespond(c, "create", 400, "Age must be a non-negative number")
         ELSE IF b.email = NoAtSign
           THEN UserRespond(c, "create", 400, "Invalid email format")
           ELSE UserGoto(c, "create", 0, b, "createUser")
  /\ UNCHANGED <<usersTable, uuids, scoreboardVars, calc, agg, registerVars>>

\* createUser: INSERT INTO users with a fresh uuid; a UNIQUE failure rejects
\* and the route answers 409, otherwise 201.  The id drawn for a failed
\* insert is stored nowhere, so it is not counted.
CreateUser(c) ==
  /\ userReq[c].pc = "createUser"
  /\ LET id == uuids + 1
         b == userReq[c].body
     IN IF UniqueViolation(usersTable, id, b.email)
          THEN /\ UserRespond(c, "create", 409, "Email already exists")
               /\ UNCHANGED <<usersTable, uuids>>
          ELSE /\ uuids < MaxUuids
               /\ usersTable' = usersTable \cup
                    {[id |-> id, name |-> b.name, email |-> b.email,
                      age |-> b.age]}
               /\ uuids' = id
               /\ UserRespond(c, "create", 201, "")
  /\ UNCHANGED <<scoreboardVars, calc, agg, registerVars>>

\* PUT /users/:id: the body is validated, then updateUser is awaited
PutUsers(c, id, b) ==
  /\ ClientIdle(c)
  /\ IF b.present = {}
       THEN UserRespond(c, "update", 400,
              "At least one field to update is required (name, email, or age)")
       ELSE IF "age" \in b.present /\ b.age = NegativeAge
         THEN UserRespond(c, "update", 400, "Age must be a non-negative number")
         ELSE IF "email" \in b.present /\ b.email = NoAtSign
           THEN UserRespond(c, "update", 400, "Invalid email format")
           ELSE UserGoto(c, "update", id, b, "updateGetUserById")
  /\ UNCHANGED <<usersTable, uuids, scoreboardVars, calc, agg, registerVars>>

\* updateUser: getUserById; no row resolves null and the route answers 404
UpdateGetUserById(c) ==
  /\ userReq[c].pc = "updateGetUserById"
  /\ IF RowsOf(usersTable, userReq[c].id) = {}
       THEN UserRespond(c, "update", 404, "User not found")
       ELSE UserGoto(c, "update", userReq[c].id, userReq[c].body, "updateRun")
  /\ UNCHANGED <<usersTable, uuids, scoreboardVars, calc, agg, registerVars>>

\* the row after SET name = ?, email = ?, age = ? for the fields given
UpdatedRow(u, b) ==
  [id |-> u.id,
   name |-> IF "name" \in b.present THEN b.name ELSE u.name,
   email |-> IF "email" \in b.present THEN b.email ELSE u.email,
   age |-> IF "age" \in b.present THEN b.age ELSE u.age]

\* updateUser: UPDATE users SET ... WHERE id = ?; a UNIQUE failure rejects
\* and the route answers 409; a statement that matches no row succeeds
UpdateRun(c) ==
  /\ userReq[c].pc = "updateRun"
  /\ LET id == userReq[c].id
         b == userReq[c].body
     IN IF /\ RowsOf(usersTable, id) # {}
           /\ "email" \in b.present
           /\ UniqueViolation(usersTable, id, b.email)
          THEN /\ UserRespond(c, "update", 409, "Email already exists")
               /\ UNCHANGED usersTable
          ELSE /\ usersTable' =
                    {IF u.id = id THEN UpdatedRow(u, b) ELSE u : u \in usersTable}
               /\ UserGoto(c, "update", id, b, "updateReread")
  /\ UNCHANGED <<uuids, scoreboardVars, calc, agg, registerVars>>

\* updateUser: getUserById again; the route answers with the row, or 404
UpdateReread(c) ==
  /\ userReq[c].pc = "updateReread"
  /\ IF RowsOf(usersTable, userReq[c].id) = {}
       THEN UserRespond(c, "update", 404, "User not found")
       ELSE UserRespond(c, "update", 200, "")
  /\ UNCHANGED <<usersTable, uuids, scoreboardVars, calc, agg, registerVars>>

\* DELETE /users/:id: deleteUser is awaited
DeleteUsers(c, id) ==
  /\ ClientIdle(c)
  /\ UserGoto(c, "delete", id, NoBody, "deleteUser")
  /\ UNCHANGED <<usersTable, uuids, scoreboardVars, calc, agg, registerVars>>

\* deleteUser: DELETE FROM users WHERE id = ?; this.changes > 0, else 404
DeleteUser(c) ==
  /\ userReq[c].pc = "deleteUser"
  /\ usersTable' = usersTable \ RowsOf(usersTable, userReq[c].id)
  /\ IF RowsOf(usersTable, userReq[c].id) = {}
       THEN UserRespond(c, "delete", 404, "User not found")
       ELSE UserRespond(c, "delete", 200, "")
  /\ UNCHANGED <<uuids, scoreboardVars, calc, agg, registerVars>>

NextUsers ==
  \/ \E c \in Clients, b \in Bodies : PostUsers(c, b)
  \/ \E c \in Clients : CreateUser(c)
  \/ \E c \in Clients, id \in UserIds, b \in Bodies : PutUsers(c, id, b)
  \/ \E c \in Clients : UpdateGetUserById(c)
  \/ \E c \in Clients : UpdateRun(c)
  \/ \E c \in Clients : UpdateReread(c)
  \/ \E c \in Clients, id \in UserIds : DeleteUsers(c, id)
  \/ \E c \in Clients : DeleteUser(c)

SpecUsers == Init /\ [][NextUsers]_vars

\* no two rows of the table users carry the same email
NoSharedEmail ==
  \A u, v \in usersTable : u.email = v.email => u = v

\* the statement client c is about to run would give a row an email that
\* another row holds
WouldShareEmail(c) ==
  \/ /\ userReq[c].pc = "createUser"
     /\ \E v \in usersTable : v.email = userReq[c].body.email
  \/ /\ userReq[c].pc = "updateRun"
     /\ "email" \in userReq[c].body.present
     /\ \E u, v \in usersTable :
          /\ u.id = userReq[c].id
          /\ v.id # u.id
          /\ v.email = userReq[c].body.email

\* client c's statement runs in this step
StatementRuns(c) ==
  /\ userReq[c].pc \in {"createUser", "updateRun"}
  /\ userReq'[c].pc # userReq[c].pc

\* C29: no two stored users ever share an email; a create or an update that
\* would give a user an email held by another user is answered 409, and a
\* request answered 409 leaves every stored user as it was.
C29_EmailsUniqueDuplicateRejected ==
  /\ [][\A c \in Clients :
          /\ (StatementRuns(c) /\ WouldShareEmail(c))
               => userReq'[c].status = 409
          /\ (StatementRuns(c) /\ userReq'[c].status = 409)
               => usersTable' = usersTable]_vars
  /\ [](NoSharedEmail)

\* a create and an update were both answered 409 while two users are stored
C29_Witness ==
  /\ Cardinality(usersTable) = 2
  /\ \E c, d \in Clients :
       /\ userReq[c].pc = "done" /\ userReq[c].op = "create"
       /\ userReq[c].status = 409
       /\ userReq[d].pc = "done" /\ userReq[d].op = "update"
       /\ userReq[d].status = 409

\* ------------------------------------------------- problem4: sum_to_n
Arguments == (0 - MaxNegative)..MaxN

\* Array.from({ length: n }, (_, i) => i + 1): the length is clamped at 0,
\* the element at index i (from 0) is i + 1
ArrayFrom(n) == [k \in 1..(IF n > 0 THEN n ELSE 0) |-> (k - 1) + 1]

\* array.reduce((sum, num) => sum + num, initial), from the left
RECURSIVE reduce(_, _)
reduce(array, sum) ==
  IF array = <<>> THEN sum ELSE reduce(Tail(array), sum + Head(array))

sum_to_n_b(n) == reduce(ArrayFrom(n), 0)

\* the loop stops one short: i < n
LoopContinuesExclusive(i, n) == i < n

\* for (...; i <= n; ...)
LoopContinues(i, n) == i <= n

\* the program is started on one argument
InitSum ==
  /\ history = <<>>
  /\ idempotency = {}
  /\ cache = NoCache
  /\ broadcasts = <<>>
  /\ req = [p \in Procs |-> IdleReq]
  /\ faults = 0
  /\ usersTable = {}
  /\ uuids = 0
  /\ userReq = [c \in Clients |-> IdleUserReq]
  /\ calc \in {[IdleCalc EXCEPT !.n = n, !.pc = "call_a"] : n \in Arguments}
  /\ agg = IdleAgg
  /\ registeredUsers = TestUsers
  /\ regReq = [c \in Registrants |-> IdleRegReq]

CalcStep(next) ==
  /\ calc' = next
  /\ UNCHANGED <<scoreboardVars, userStoreVars, agg, registerVars>>

\* sum_to_n_a: let total = 0; let i = 1
SumA_Enter ==
  /\ calc.pc = "call_a"
  /\ CalcStep([calc EXCEPT !.pc = "a_loop", !.total = 0, !.i = 1])

\* sum_to_n_a: one pass of the loop, total += i; i++
SumA_Loop ==
  /\ calc.pc = "a_loop"
  /\ LoopContinues(calc.i, calc.n)
  /\ CalcStep([calc EXCEPT !.total = @ + calc.i, !.i = @ + 1])

\* sum_to_n_a: return total
SumA_Return ==
  /\ calc.pc = "a_loop"
  /\ ~LoopContinues(calc.i, calc.n)
  /\ CalcStep([calc EXCEPT !.pc = "call_b", !.a = calc.total,
                           !.total = 0, !.i = 0])

\* const b = sum_to_n_b(n)
SumB_Call ==
  /\ calc.pc = "call_b"
  /\ CalcStep([calc EXCEPT !.pc = "call_c", !.b = sum_to_n_b(calc.n)])

\* const c = sum_to_n_c(n): the outermost frame
SumC_Enter ==
  /\ calc.pc = "call_c"
  /\ CalcStep([calc EXCEPT !.pc = "c_body", !.frames = <<calc.n>>])

\* sum_to_n_c, frame of argument m: if (m <= 0) return 0; else call
\* sum_to_n_c(m - 1)
SumC_Body ==
  /\ calc.pc = "c_body"
  /\ LET m == calc.frames[Len(calc.frames)] IN
       IF m <= 0
         THEN CalcStep([calc EXCEPT !.pc = "c_return", !.ret = 0,
                          !.frames = SubSeq(@, 1, Len(@) - 1)])
         ELSE CalcStep([calc EXCEPT !.frames = Append(@, m - 1)])

\* sum_to_n_c, frame of argument m whose inner call returned: return m + ret
SumC_Return ==
  /\ calc.pc = "c_return"
  /\ calc.frames # <<>>
  /\ LET m == calc.frames[Len(calc.frames)] IN
       CalcStep([calc EXCEPT !.ret = m + @,
                             !.frames = SubSeq(@, 1, Len(@) - 1)])

\* the outermost frame has returned: c is assigned, the results are logged
SumC_Done ==
  /\ calc.pc = "c_return"
  /\ calc.frames = <<>>
  /\ CalcStep([calc EXCEPT !.pc = "done", !.c = calc.ret, !.ret = 0])

NextSum ==
  \/ SumA_Enter
  \/ SumA_Loop
  \/ SumA_Return
  \/ SumB_Call
  \/ SumC_Enter
  \/ SumC_Body
  \/ SumC_Return
  \/ SumC_Done

\* the program is one thread that runs until it returns
SpecSum == InitSum /\ [][NextSum]_vars /\ WF_vars(NextSum)

\* n * (n + 1) / 2 for n >= 0, and 0 for n <= 0
GaussSum(n) == IF n >= 0 THEN (n * (n + 1)) \div 2 ELSE 0

\* C30: for every argument of the range the three calls return, and they
\* return the same value: n * (n + 1) / 2 for n >= 0, 0 for n <= 0.
C30_ThreeSumsTerminateAndAgree ==
  /\ [](calc.pc = "done" =>
          /\ calc.a = GaussSum(calc.n)
          /\ calc.b = GaussSum(calc.n)
          /\ calc.c = GaussSum(calc.n))
  /\ <>(calc.pc = "done")

\* the three calls have returned for the largest argument
C30_Witness ==
  /\ calc.pc = "done"
  /\ calc.n = MaxN
  /\ calc.a > 0
  /\ calc.a = calc.b /\ calc.b = calc.c

\* the steps of a successful updateScore that is no replay, in program order
UpdateScoreOrder ==
  <<"isActionProcessed", "getActionScoreValue", "getPreviousScore",
    "addScoreHistory", "recordAction", "getNewScore", "invalidateTop10",
    "getUserRank">>

\* update p is answered in this step with a success that is no replay
AppliedResponse(p) ==
  /\ IsUpdate(p) /\ Steps(p)
  /\ req'[p].pc = "done" /\ req'[p].status = 200
  /\ req'[p].scoreIncrease > 0

\* the event of update p is in the store, and its action id is recorded
Committed(p) == EventOf(p) # {} /\ req[p].actionId \in ProcessedIds

DistinctIdsNoFault ==
  /\ faults = 0
  /\ \A p, q \in Updates : p # q => req[p].actionId # req[q].actionId

\* C32: every updateScore answered with a success that is no replay returns
\* newScore = previousScore + scoreIncrease, also when other calls for the
\* same user with other action ids run at the same time.
C32_NewScoreIsPreviousPlusIncrease ==
  DistinctIdsNoFault =>
    \A p \in Updates :
      (Answered(p) /\ req[p].status = 200 /\ req[p].scoreIncrease > 0)
        => req[p].newScore = req[p].previousScore + req[p].scoreIncrease

\* ------------------------------------------- readers that ask again
\* a client whose GET /api/scores/top10 was answered sends the request again
\* (a scoreboard page that polls); preceding is not kept for such a request
StartTop10Again(p) ==
  /\ req[p].pc = "done"
  /\ req[p].kind = "top10"
  /\ Goto(p, [IdleReq EXCEPT !.kind = "top10"], "cacheGetTop10")
  /\ UNCHANGED <<history, idempotency, cache, broadcasts, faults>>

NextTop ==
  \/ \E p \in Procs, u \in Users, a \in ActionIds, t \in ActionTypes :
        StartUpdate(p, u, a, t)
  \/ \E p \in Procs : IsActionProcessed(p)
  \/ \E p \in Procs : ReplayGetTotalScore(p)
  \/ \E p \in Procs : ReplayGetUserRank(p)
  \/ \E p \in Procs : GetActionScoreValue(p)
  \/ \E p \in Procs : GetPreviousScore(p)
  \/ \E p \in Procs : AddScoreHistory(p)
  \/ \E p \in Procs : RecordAction(p)
  \/ \E p \in Procs : GetNewScore(p)
  \/ \E p \in Procs : InvalidateTop10(p)
  \/ \E p \in Procs : GetUserRank(p)
  \/ \E p \in Procs : StartTop10(p)
  \/ \E p \in Procs : StartTop10Again(p)
  \/ \E p \in Procs : CacheGetTop10(p)
  \/ \E p \in Procs : GetAllUsersWithScores(p)
  \/ \E p \in Procs : CacheDel(p)
  \/ \E p \in Procs : CacheZAdd(p)
  \/ \E p \in Procs : CacheExpire(p)

SpecTop == Init /\ [][NextTop]_vars

\* a getTop10 result: at most 10 entries, no user twice, ranks 1..k in order
WellFormedTop10(scores) ==
  /\ Len(scores) <= TOP10
  /\ \A i, j \in DOMAIN scores : scores[i].userId = scores[j].userId => i = j
  /\ \A i \in DOMAIN scores : scores[i].rank = i

\* C33: every getTop10 result, served from the cache or freshly computed, has
\* at most 10 entries, lists no user more than once and carries the ranks
\* 1..k in order, whatever the interleaving of getTop10 calls and updates.
C33_Top10WellFormed ==
  \A t \in Procs :
    (IsTop10(t) /\ Answered(t) /\ req[t].status = 200)
      => WellFormedTop10(req[t].scores)

\* -------------------------------------- aggregation over many users
Players == 1..NumPlayers

\* k score_history rows of player u, each a button_click
RECURSIVE Clicks(_, _)
Clicks(u, k) ==
  IF k = 0 THEN <<>>
  ELSE <<[id |-> 0, user_id |-> u, action_type |-> "button_click",
          score_increase |-> defaultActions.button_click]>> \o Clicks(u, k - 1)

\* the log in which player u has u - 1 rows, and one more if u is in more:
\* the first player may have no row, only neighbours can tie
RECURSIVE LogOf(_, _)
LogOf(more, u) ==
  IF u > NumPlayers THEN <<>>
  ELSE Clicks(u, IF u \in more THEN u ELSE u - 1) \o LogOf(more, u + 1)

Logs == {LogOf(more, 1) : more \in SUBSET Players}

\* ORDER BY totalScore ASC
HighestTotalAscending(users, total) ==
  {v \in users : \A w \in users : total[v] <= total[w]}

\* the users that ORDER BY totalScore DESC may put first
HighestTotal(users, total) ==
  {v \in users : \A w \in users : total[v] >= total[w]}

\* every order of the users that ORDER BY totalScore DESC allows
RECURSIVE OrderByTotalDesc(_, _)
OrderByTotalDesc(users, total) ==
  IF users = {} THEN {<<>>}
  ELSE UNION {{<<v>> \o rest : rest \in OrderByTotalDesc(users \ {v}, total)} :
                v \in HighestTotal(users, total)}

\* getAllUsersWithScores over the users table given: one row per user with
\* COALESCE(SUM(score_increase), 0), ORDER BY totalScore DESC
getAllUsersWithScoresOf(users, h) ==
  UNION {{[i \in DOMAIN s |-> [id |-> s[i], totalScore |-> total[s[i]]]] :
            s \in OrderByTotalDesc(users, total)} :
           total \in {[u \in users |-> SumIncrease(h, u)]}}

\* a getTop10 call that missed the cache, over one of the logs
InitSlice ==
  /\ history = <<>>
  /\ idempotency = {}
  /\ cache = NoCache
  /\ broadcasts = <<>>
  /\ req = [p \in Procs |-> IdleReq]
  /\ faults = 0
  /\ usersTable = {}
  /\ uuids = 0
  /\ userReq = [c \in Clients |-> IdleUserReq]
  /\ calc = IdleCalc
  /\ agg \in {[IdleAgg EXCEPT !.log = l, !.pc = "getAllUsersWithScores"] :
                l \in Logs}
  /\ registeredUsers = TestUsers
  /\ regReq = [c \in Registrants |-> IdleRegReq]

\* const allUsersWithScores = await this.getAllUsersWithScores()
AggregateMany ==
  /\ agg.pc = "getAllUsersWithScores"
  /\ \E rows \in getAllUsersWithScoresOf(Players, agg.log) :
       agg' = [agg EXCEPT !.rows = rows, !.pc = "return"]
  /\ UNCHANGED <<scoreboardVars, userStoreVars, calc, registerVars>>

\* slice(0, 10), rank i + 1, return { scores }; the cache writes in between
\* do not touch the rows
ReturnScores ==
  /\ agg.pc = "return"
  /\ agg' = [agg EXCEPT !.scores = MissScores(agg.rows), !.rows = <<>>,
                        !.pc = "done"]
  /\ UNCHANGED <<scoreboardVars, userStoreVars, calc, registerVars>>

NextSlice ==
  \/ AggregateMany
  \/ ReturnScores

SpecSlice == InitSlice /\ [][NextSlice]_vars

\* with the two users of the scoreboard both descriptions of the query agree
AggregationsAgree ==
  getAllUsersWithScores(history) = getAllUsersWithScoresOf(Users, history)

Listed(scores) == {scores[i].userId : i \in DOMAIN scores}

\* C34: a freshly computed getTop10 result is the top slice of the store it
\* was aggregated from: it has min(10, users) entries, each listed score is
\* the sum of that user's rows, the scores do not increase down the list, and
\* no unlisted user has a strictly greater score than a listed one.
C34_FreshResultIsTopSlice ==
  agg.pc = "done" =>
    LET sum == [u \in Players |-> getTotalScore(agg.log, u)] IN
      /\ Len(agg.scores) = Min(TOP10, NumPlayers)
      /\ \A i \in DOMAIN agg.scores :
           agg.scores[i].score = sum[agg.scores[i].userId]
      /\ \A i, j \in DOMAIN agg.scores :
           i < j => agg.scores[i].score >= agg.scores[j].score
      /\ \A u \in Players \ Listed(agg.scores) :
           \A i \in DOMAIN agg.scores : sum[u] <= agg.scores[i].score

\* a result that leaves out a player who ties with the last listed one
C34_Witness ==
  /\ agg.pc = "done"
  /\ Len(agg.scores) = TOP10
  /\ agg.scores[TOP10].score > 0
  /\ \E u \in Players \ Listed(agg.scores) :
       getTotalScore(agg.log, u) = agg.scores[TOP10].score

\* C35: with the default action catalog a user's score is never negative and
\* never decreases, whatever operations run; the scores an update reports
\* are not negative and newScore is not below previousScore.
C35_ScoreNeverNegativeNeverDecreases ==
  /\ [][\A u \in Users : SumIncrease(history', u) >= SumIncrease(history, u)]_vars
  /\ [](\A u \in Users : SumIncrease(history, u) >= 0)
  /\ [](\A p \in Updates :
          (Answered(p) /\ req[p].status = 200)
            => req[p].previousScore >= 0 /\ req[p].newScore >= req[p].previousScore)

\* a user's score has risen twice
C35_Witness ==
  \E u \in Users :
    /\ Cardinality(EventsOfUser(u)) = 2
    /\ SumIncrease(history, u) = 75

\* GET /api/scores/top10: source: result.cachedAt ? 'cache' : 'database'
source(r) == IF r.cachedAt THEN "cache" ELSE "database"

\* the getTop10 call t is answered with success in this step
Top10Answered(t) ==
  /\ IsTop10(t) /\ Steps(t)
  /\ req'[t].pc = "done" /\ req'[t].status = 200

\* C36: a getTop10 result is reported with source 'cache' exactly when its
\* entries were read from the cache, and with source 'database' exactly when
\* they were recomputed from the store.
C36_SourceTellsOrigin ==
  [][\A t \in Procs :
       Top10Answered(t) =>
         /\ (source(req'[t]) = "cache") = (req[t].pc = "cacheGetTop10")
         /\ (source(req'[t]) = "database") = (req[t].pc \in {"cacheDel", "cacheExpire"})
         /\ req[t].pc = "cacheGetTop10" => req'[t].scores = CachedScores
         /\ req[t].pc \in {"cacheDel", "cacheExpire"}
              => req'[t].scores = MissScores(req[t].rows)]_vars

\* one result came from the cache and one from the database
C36_Witness ==
  \E t1, t2 \in Procs :
    /\ IsTop10(t1) /\ Answered(t1) /\ req[t1].status = 200
    /\ IsTop10(t2) /\ Answered(t2) /\ req[t2].status = 200
    /\ source(req[t1]) = "database"
    /\ source(req[t2]) = "cache"
    /\ req[t1].scores = req[t2].scores

\* ------------------------------------------------- POST /auth/register
\* usernames sent: one that has an account, and two that have none
Usernames == {"alice", "carol", "dave"}

RegRespond(c, r, code, message) ==
  regReq' = [regReq EXCEPT ![c] = [r EXCEPT !.pc = "done", !.status = code,
                                            !.error = message]]

AccountsOf(username) == {row \in registeredUsers : row.username = username}

\* const { username } = req.body; if (!username || typeof username !==
\* 'string') 400; then the SELECT is awaited
StartRegister(c, shape, username) ==
  /\ regReq[c].pc = "idle"
  /\ IF shape # "string"
       THEN RegRespond(c, IdleRegReq, 400, "Username is required")
       ELSE regReq' = [regReq EXCEPT ![c] =
                         [IdleRegReq EXCEPT !.pc = "selectUser",
                                            !.username = username]]
  /\ UNCHANGED <<registeredUsers, scoreboardVars, userStoreVars, calc, agg>>

\* SELECT * FROM users WHERE username = ?; a row found is answered with its
\* id and a token, otherwise a uuid is drawn (modelled by the call that
\* draws it) and the INSERT is awaited
SelectUser(c) ==
  /\ regReq[c].pc = "selectUser"
  /\ IF AccountsOf(regReq[c].username) # {}
       THEN \E row \in AccountsOf(regReq[c].username) :
              RegRespond(c, [regReq[c] EXCEPT !.userId = row.id], 200, "")
       ELSE regReq' = [regReq EXCEPT ![c] =
                         [regReq[c] EXCEPT !.pc = "insertUser",
                                           !.userId = ToString(c)]]
  /\ UNCHANGED <<registeredUsers, scoreboardVars, userStoreVars, calc, agg>>

\* INSERT INTO users (id, username, email, createdAt); username is UNIQUE
\* (and so is the email, made from the username): a second row for the
\* username rejects and the catch answers 500
InsertUser(c) ==
  /\ regReq[c].pc = "insertUser"
  /\ IF AccountsOf(regReq[c].username) # {}
       THEN /\ RegRespond(c, [regReq[c] EXCEPT !.userId = ""], 500,
                          "Registration failed")
            /\ UNCHANGED registeredUsers
       ELSE /\ registeredUsers' = registeredUsers \cup
                 {[id |-> regReq[c].userId, username |-> regReq[c].username]}
            /\ RegRespond(c, regReq[c], 200, "")
  /\ UNCHANGED <<scoreboardVars, userStoreVars, calc, agg>>

NextRegister ==
  \/ \E c \in Registrants, shape \in FieldShapes, username \in Usernames :
        StartRegister(c, shape, username)
  \/ \E c \in Registrants : SelectUser(c)
  \/ \E c \in Registrants : InsertUser(c)

SpecRegister == Init /\ [][NextRegister]_vars

\* the call was answered and carried a valid username
RegisteredCall(c) == regReq[c].pc = "done" /\ regReq[c].username # ""

\* C37: every /auth/register call with a valid username succeeds, all calls
\* for one username, sequential or concurrent, return the same userId, and
\* the table users never holds two rows for one username.
C37_RegisterAlwaysSucceedsSameId ==
  /\ \A c \in Registrants : RegisteredCall(c) => regReq[c].status = 200
  /\ \A c, d \in Registrants :
       (/\ RegisteredCall(c) /\ RegisteredCall(d)
        /\ regReq[c].status = 200 /\ regReq[d].status = 200
        /\ regReq[c].username = regReq[d].username)
         => regReq[c].userId = regReq[d].userId
  /\ \A r1, r2 \in registeredUsers : r1.username = r2.username => r1 = r2

====
